---- MODULE Spec2Model ----
\* Token-bucket rate limiter (package ratelimiter): a buffered channel of
\* tokens, a ticker-driven refill goroutine, a mutex-guarded stopped flag,
\* and the callers of Allow, Wait and Stop as concurrent goroutines; the
\* APIClient that admits a call through two such buckets (package client);
\* and the Router that spreads calls over its clients (package router).
EXTENDS Integers, Naturals, FiniteSets, Sequences, TLC

\* ---------------------------------------------------------------- bounds
NumProcs == 2          \* concurrent caller goroutines
MaxCalls == 3          \* calls of Allow/Wait/Stop issued in one behaviour
MaxTicks == 2          \* firings of the ticker in one behaviour
MaxBucketSize == 2     \* largest bucketSize argument tried
MaxRefillRate == 2     \* largest refillRate argument tried (nanoseconds)
MaxRequestsPerMinute == 2  \* largest RequestsPerMinute of an APIClient
MaxTokensPerMinute == 3    \* largest TokensPerMinute of an APIClient
MaxMessages == 0       \* most messages in a request to the APIClient
MaxClientCalls == 2    \* calls of the APIClient issued in one behaviour
MaxLimTicks == 1       \* ticks the limiters of the APIClient handle
ScenarioRequests == 10     \* RequestsPerMinute of the admission scenario
ScenarioUnits == 1000      \* TokensPerMinute of the admission scenario
ScenarioMessages == 12     \* messages of each call of the admission scenario
MaxClients == 3        \* most clients of a Router
MaxRouterCalls == 6    \* calls of the Router issued in one behaviour
MaxAvail == 1          \* most tokens a client of the Router reports

\* ------------------------------------------------------------- constants
DefaultBucketSize == 10
DefaultRefillRate == 1000000000    \* time.Second, in nanoseconds
DefaultRequestsPerMinute == 60
DefaultTokensPerMinute == 90000

Procs == 1..NumProcs
BucketSizeArgs == 1..MaxBucketSize
\* Arguments of NewTokenBucket including the non-positive ones that select
\* the defaults.
AnyBucketSizeArgs == -1..MaxBucketSize
AnyRefillRateArgs == -1..MaxRefillRate
CtxKinds == {"background", "live", "done"}
Limiters == {"request", "token"}

VARIABLES
    args,           \* the arguments NewTokenBucket was called with
    bucketSize,     \* tb.bucketSize
    refillRate,     \* tb.refillRate, in nanoseconds as time.Duration
    tokens,         \* len(tb.tokens): the buffered channel holds only struct{}{}
    tickerRunning,  \* tb.ticker is active
    tickerC,        \* ticks pending on tb.ticker.C (at most one)
    stopCh,         \* "open" or "closed"
    stopped,        \* tb.stopped
    muWriter,       \* goroutine holding tb.mu for writing, 0 if none
    refillPc,       \* position of the refillTokens goroutine
    pc,             \* position of each caller
    ret,            \* the latest return: the value returned, whether
                    \* that call had started after a Stop had returned,
                    \* and for a returned context error whether the
                    \* context was "done" at the call or "cancelled" later
    ctx,            \* the state of the context passed to the Wait in progress
                    \* ("done": already done when Wait was called)
    afterStop,      \* the call in progress started after a Stop had returned
    calls,          \* calls issued so far
    ticks,          \* ticker firings so far
    refillSteps,    \* ticks the refill goroutine has handled
    refilled,       \* ticks that put a token into the bucket
    allowTrue,      \* Allow calls that returned true
    waitNil,        \* Wait calls that returned nil
    stopReturned,   \* some Stop call has returned
    closes,         \* executions of close(tb.stopCh)
    tickerStops,    \* executions of tb.ticker.Stop()
    panicked        \* a goroutine panicked (close of a closed channel)

\* The APIClient and its two limiters, "request" and "token".
VARIABLES
    limSize,        \* bucketSize of each limiter
    limTokens,      \* len(tokens) of each limiter
    limStopped,     \* stopped flag of each limiter
    limTicks,       \* ticks handled by the two refill goroutines so far
    cpc,            \* position of each caller of the APIClient
    cCtx,           \* the context of the call in progress can be done
    cN,             \* inputTokens of the call in progress
    cI,             \* the loop variable i of the call in progress
    cTook,          \* tokens the call in progress has taken from each limiter
    cAfterClose,    \* the call in progress started after a Close had returned
    cRet,           \* the latest return of a caller of the APIClient
    cCalls,         \* calls of the APIClient issued so far
    apiIssued,      \* gated API calls issued so far
    closeReturned   \* some Close call has returned

\* The Router and its clients.
VARIABLES
    rKind,          \* which Router of router.go: "counter" or "tokens"
    rClients,       \* len(r.clients)
    rAvail,         \* what AvailableTokens() of each client returns
    rCounter,       \* r.counter
    rpc,            \* position of each caller of the Router
    rIndex,         \* the counter value the call in progress obtained
    rSelected,      \* selectedClient of the call in progress, 0 before it
    rHandled,       \* calls each client has handled
    rCalls,         \* calls of the Router issued so far
    rRet            \* the latest return of a caller of the Router

bucketVars == <<args, bucketSize, refillRate, tokens, tickerRunning, tickerC,
                stopCh, stopped, muWriter, refillPc, pc, ret, ctx, afterStop,
                calls, ticks, refillSteps, refilled, allowTrue, waitNil,
                stopReturned, closes, tickerStops, panicked>>

apiVars == <<limSize, limTokens, limStopped, limTicks, cpc, cCtx,
             cN, cI, cTook, cAfterClose, cRet, cCalls, apiIssued,
             closeReturned>>

routerVars == <<rKind, rClients, rAvail, rCounter, rpc, rIndex, rSelected,
                rHandled, rCalls, rRet>>

vars == <<bucketVars, apiVars, routerVars>>

\* ---------------------------------------------------------- construction
\* NewTokenBucket: a non-positive bucketSize is replaced by the default.
NewBucketSize(c) == IF c <= 0 THEN DefaultBucketSize ELSE c

NewRefillRate_NoDefault(r) == r

\* NewTokenBucket: a non-positive refillRate is replaced by the default.
NewRefillRate(r) == IF r <= 0 THEN DefaultRefillRate ELSE r

InitialFill_OneShort(b) == b - 1

\* NewTokenBucket: the loop that sends bucketSize tokens into the channel.
InitialFill(b) == b

\* len(tb.tokens)
AvailableTokens == tokens

\* tb.BucketSize()
BucketSize == bucketSize

\* tb.RefillRate()
RefillRate == refillRate

\* No APIClient has been built.
NoAPIClient ==
    /\ limSize = [l \in Limiters |-> 0]
    /\ limTokens = [l \in Limiters |-> 0]
    /\ limStopped = [l \in Limiters |-> FALSE]
    /\ limTicks = 0
    /\ cpc = [p \in Procs |-> "idle"]
    /\ cCtx = [p \in Procs |-> "background"]
    /\ cN = [p \in Procs |-> 0]
    /\ cI = [p \in Procs |-> 0]
    /\ cTook = [p \in Procs |-> [l \in Limiters |-> 0]]
    /\ cAfterClose = [p \in Procs |-> FALSE]
    /\ cRet = [val |-> "none", cause |-> "none", afterClose |-> FALSE,
               took |-> [l \in Limiters |-> 0]]
    /\ cCalls = 0
    /\ apiIssued = 0
    /\ closeReturned = FALSE

\* No Router has been built.
NoRouter ==
    /\ rKind = "counter"
    /\ rClients = 0
    /\ rAvail = <<>>
    /\ rCounter = 0
    /\ rpc = [p \in Procs |-> "idle"]
    /\ rIndex = [p \in Procs |-> 0]
    /\ rSelected = [p \in Procs |-> 0]
    /\ rHandled = <<>>
    /\ rCalls = 0
    /\ rRet = [val |-> "none", client |-> 0]

\* NewTokenBucket(c, r): the state it returns the bucket in.
NewTokenBucket(c, r) ==
    /\ args = [bucketSize |-> c, refillRate |-> r]
    /\ bucketSize = NewBucketSize(c)
    /\ refillRate = NewRefillRate(r)
    /\ tokens = InitialFill(NewBucketSize(c))
    /\ tickerRunning = TRUE
    /\ tickerC = 0
    /\ stopCh = "open"
    /\ stopped = FALSE
    /\ muWriter = 0
    /\ refillPc = "select"
    /\ pc = [p \in Procs |-> "idle"]
    /\ ret = [val |-> "none", afterStop |-> FALSE, ctx |-> "background"]
    /\ ctx = [p \in Procs |-> "background"]
    /\ afterStop = [p \in Procs |-> FALSE]
    /\ calls = 0
    /\ ticks = 0
    /\ refillSteps = 0
    /\ refilled = 0
    /\ allowTrue = 0
    /\ waitNil = 0
    /\ stopReturned = FALSE
    /\ closes = 0
    /\ tickerStops = 0
    /\ panicked = FALSE

\* Time is not modelled: the refill rate only names the period of the
\* ticker, whose firings are the Tick steps, so the behaviours of the
\* bucket are explored for one rate.
Init ==
    /\ \E c \in BucketSizeArgs : NewTokenBucket(c, DefaultRefillRate)
    /\ NoAPIClient
    /\ NoRouter

\* Construction with any arguments, the defaulted ones included.
InitAnyArgs ==
    /\ \E c \in AnyBucketSizeArgs : \E r \in AnyRefillRateArgs :
           NewTokenBucket(c, r)
    /\ NoAPIClient
    /\ NoRouter

\* ------------------------------------------------------------------ tb.mu
\* sync.RWMutex: RLock succeeds when no writer holds the lock. A reader
\* holds the lock only to read tb.stopped, which changes only under the
\* write lock, so RLock, the read and RUnlock are taken as one step.
CanRLock == muWriter = 0

\* sync.RWMutex: Lock succeeds when nobody holds the lock.
CanLock == muWriter = 0

\* A call returns r to caller p.
Return(p, r) ==
    /\ pc' = [pc EXCEPT ![p] = "idle"]
    /\ ret' = [val |-> r, afterStop |-> afterStop[p],
               ctx |-> IF r = "ctxErr" THEN ctx[p] ELSE "background"]
    /\ ctx' = [ctx EXCEPT ![p] = "background"]
    /\ afterStop' = [afterStop EXCEPT ![p] = FALSE]

\* --------------------------------------------------------- ticker, refill
\* time.Ticker: a firing leaves one tick on ticker.C; a firing that finds
\* one already pending is dropped and changes nothing.
Tick ==
    /\ ~panicked
    /\ tickerRunning
    /\ tickerC = 0
    /\ ticks < MaxTicks
    /\ tickerC' = 1
    /\ ticks' = ticks + 1
    /\ UNCHANGED <<args, refillRate, apiVars, routerVars>>
    /\ UNCHANGED <<bucketSize, tokens, tickerRunning, stopCh, stopped,
                   muWriter, refillPc, pc, ret, ctx, afterStop,
                   calls, refillSteps, refilled, allowTrue, waitNil,
                   stopReturned, closes, tickerStops, panicked>>

\* refillTokens: case <-tb.ticker.C
RefillRecv ==
    /\ ~panicked
    /\ refillPc = "select"
    /\ tickerC = 1
    /\ tickerC' = 0
    /\ refillPc' = "tick"
    /\ UNCHANGED <<args, refillRate, apiVars, routerVars>>
    /\ UNCHANGED <<bucketSize, tokens, tickerRunning, stopCh, stopped,
                   muWriter, pc, ret, ctx, afterStop, calls,
                   ticks, refillSteps, refilled, allowTrue, waitNil,
                   stopReturned, closes, tickerStops, panicked>>

\* refillTokens: case <-tb.stopCh: return
RefillStop ==
    /\ ~panicked
    /\ refillPc = "select"
    /\ stopCh = "closed"
    /\ refillPc' = "done"
    /\ UNCHANGED <<args, refillRate, apiVars, routerVars>>
    /\ UNCHANGED <<bucketSize, tokens, tickerRunning, tickerC, stopCh,
                   stopped, muWriter, pc, ret, ctx, afterStop,
                   calls, ticks, refillSteps, refilled, allowTrue, waitNil,
                   stopReturned, closes, tickerStops, panicked>>

RefillAdd_Blocking ==
    /\ ~panicked
    /\ refillPc = "tick"
    /\ tokens < bucketSize
    /\ tokens' = tokens + 1
    /\ refilled' = refilled + 1
    /\ refillSteps' = refillSteps + 1
    /\ refillPc' = "select"
    /\ UNCHANGED <<args, refillRate, apiVars, routerVars>>
    /\ UNCHANGED <<bucketSize, tickerRunning, tickerC, stopCh, stopped,
                   muWriter, pc, ret, ctx, afterStop, calls,
                   ticks, allowTrue, waitNil, stopReturned, closes,
                   tickerStops, panicked>>

RefillAdd_NoCap ==
    /\ ~panicked
    /\ refillPc = "tick"
    /\ tokens' = tokens + 1
    /\ refilled' = refilled + 1
    /\ refillSteps' = refillSteps + 1
    /\ refillPc' = "select"
    /\ UNCHANGED <<args, refillRate, apiVars, routerVars>>
    /\ UNCHANGED <<bucketSize, tickerRunning, tickerC, stopCh, stopped,
                   muWriter, pc, ret, ctx, afterStop, calls,
                   ticks, allowTrue, waitNil, stopReturned, closes,
                   tickerStops, panicked>>

RefillAdd_Two ==
    /\ ~panicked
    /\ refillPc = "tick"
    /\ IF tokens < bucketSize
          THEN /\ tokens' = tokens + 2
               /\ refilled' = refilled + 1
          ELSE UNCHANGED <<tokens, refilled>>
    /\ refillSteps' = refillSteps + 1
    /\ refillPc' = "select"
    /\ UNCHANGED <<args, refillRate, apiVars, routerVars>>
    /\ UNCHANGED <<bucketSize, tickerRunning, tickerC, stopCh, stopped,
                   muWriter, pc, ret, ctx, afterStop, calls,
                   ticks, allowTrue, waitNil, stopReturned, closes,
                   tickerStops, panicked>>

\* refillTokens: the inner select, a non-blocking send into tb.tokens.
RefillAdd ==
    /\ ~panicked
    /\ refillPc = "tick"
    /\ IF tokens < bucketSize
          THEN /\ tokens' = tokens + 1
               /\ refilled' = refilled + 1
          ELSE UNCHANGED <<tokens, refilled>>
    /\ refillSteps' = refillSteps + 1
    /\ refillPc' = "select"
    /\ UNCHANGED <<args, refillRate, apiVars, routerVars>>
    /\ UNCHANGED <<bucketSize, tickerRunning, tickerC, stopCh, stopped,
                   muWriter, pc, ret, ctx, afterStop, calls,
                   ticks, allowTrue, waitNil, stopReturned, closes,
                   tickerStops, panicked>>

\* ------------------------------------------------------------------ Allow
\* A caller enters Allow.
AllowCall(p) ==
    /\ ~panicked
    /\ pc[p] = "idle"
    /\ calls < MaxCalls
    /\ calls' = calls + 1
    /\ pc' = [pc EXCEPT ![p] = "allow_check"]
    /\ ctx' = [ctx EXCEPT ![p] = "background"]
    /\ afterStop' = [afterStop EXCEPT ![p] = stopReturned]
    /\ UNCHANGED <<args, refillRate, apiVars, routerVars>>
    /\ UNCHANGED <<bucketSize, tokens, tickerRunning, tickerC, stopCh,
                   stopped, muWriter, refillPc, ret, ticks, refillSteps,
                   refilled, allowTrue, waitNil, stopReturned, closes,
                   tickerStops, panicked>>

AllowCheck_IgnoreStopped(p) ==
    /\ ~panicked
    /\ pc[p] = "allow_check"
    /\ CanRLock
    /\ pc' = [pc EXCEPT ![p] = "allow_select"]
    /\ UNCHANGED <<args, refillRate, apiVars, routerVars>>
    /\ UNCHANGED <<bucketSize, tokens, tickerRunning, tickerC, stopCh,
                   stopped, muWriter, refillPc, ret, ctx, afterStop, calls,
                   ticks, refillSteps, refilled, allowTrue, waitNil,
                   stopReturned, closes, tickerStops, panicked>>

\* Allow: RLock; if tb.stopped { RUnlock; return false }; RUnlock
AllowCheck(p) ==
    /\ ~panicked
    /\ pc[p] = "allow_check"
    /\ CanRLock
    /\ IF stopped
          THEN Return(p, "false")
          ELSE /\ pc' = [pc EXCEPT ![p] = "allow_select"]
               /\ UNCHANGED <<ret, ctx, afterStop>>
    /\ UNCHANGED <<args, refillRate, apiVars, routerVars>>
    /\ UNCHANGED <<bucketSize, tokens, tickerRunning, tickerC, stopCh,
                   stopped, muWriter, refillPc, calls, ticks, refillSteps,
                   refilled, allowTrue, waitNil, stopReturned, closes,
                   tickerStops, panicked>>

AllowSelect_Blocking(p) ==
    /\ ~panicked
    /\ pc[p] = "allow_select"
    /\ tokens > 0
    /\ tokens' = tokens - 1
    /\ allowTrue' = allowTrue + 1
    /\ Return(p, "true")
    /\ UNCHANGED <<args, refillRate, apiVars, routerVars>>
    /\ UNCHANGED <<bucketSize, tickerRunning, tickerC, stopCh, stopped,
                   muWriter, refillPc, calls, ticks, refillSteps,
                   refilled, waitNil, stopReturned, closes, tickerStops,
                   panicked>>

AllowSelect_NoTake(p) ==
    /\ ~panicked
    /\ pc[p] = "allow_select"
    /\ IF tokens > 0
          THEN /\ allowTrue' = allowTrue + 1
               /\ Return(p, "true")
          ELSE /\ UNCHANGED allowTrue
               /\ Return(p, "false")
    /\ UNCHANGED <<args, refillRate, apiVars, routerVars>>
    /\ UNCHANGED <<bucketSize, tokens, tickerRunning, tickerC, stopCh,
                   stopped, muWriter, refillPc, calls, ticks,
                   refillSteps, refilled, waitNil, stopReturned, closes,
                   tickerStops, panicked>>

\* Allow: select { case <-tb.tokens: return true; default: return false }
AllowSelect(p) ==
    /\ ~panicked
    /\ pc[p] = "allow_select"
    /\ IF tokens > 0
          THEN /\ tokens' = tokens - 1
               /\ allowTrue' = allowTrue + 1
               /\ Return(p, "true")
          ELSE /\ UNCHANGED <<tokens, allowTrue>>
               /\ Return(p, "false")
    /\ UNCHANGED <<args, refillRate, apiVars, routerVars>>
    /\ UNCHANGED <<bucketSize, tickerRunning, tickerC, stopCh, stopped,
                   muWriter, refillPc, calls, ticks, refillSteps,
                   refilled, waitNil, stopReturned, closes, tickerStops,
                   panicked>>

\* ------------------------------------------------------------------- Wait
\* ctx.Done() is closed: the context was done when Wait was called, or it
\* was cancelled or timed out since.
CtxIsDone(p) == ctx[p] \in {"done", "cancelled"}

\* A caller enters Wait with a context that can never be done
\* (context.Background()), one that is live, or one that is already done.
WaitCall(p, c) ==
    /\ ~panicked
    /\ pc[p] = "idle"
    /\ calls < MaxCalls
    /\ calls' = calls + 1
    /\ pc' = [pc EXCEPT ![p] = "wait_check"]
    /\ ctx' = [ctx EXCEPT ![p] = c]
    /\ afterStop' = [afterStop EXCEPT ![p] = stopReturned]
    /\ UNCHANGED <<args, refillRate, apiVars, routerVars>>
    /\ UNCHANGED <<bucketSize, tokens, tickerRunning, tickerC, stopCh,
                   stopped, muWriter, refillPc, ret, ticks, refillSteps,
                   refilled, allowTrue, waitNil, stopReturned, closes,
                   tickerStops, panicked>>

\* The context of a Wait call in progress is cancelled or times out; the
\* value "cancelled" tells it from a context that was done at the call.
CtxDone(p) ==
    /\ ~panicked
    /\ pc[p] \in {"wait_check", "wait_select"}
    /\ ctx[p] = "live"
    /\ ctx' = [ctx EXCEPT ![p] = "cancelled"]
    /\ UNCHANGED <<args, refillRate, apiVars, routerVars>>
    /\ UNCHANGED <<bucketSize, tokens, tickerRunning, tickerC, stopCh,
                   stopped, muWriter, refillPc, pc, ret, afterStop, calls,
                   ticks, refillSteps, refilled, allowTrue, waitNil,
                   stopReturned, closes, tickerStops, panicked>>

WaitCheck_IgnoreStopped(p) ==
    /\ ~panicked
    /\ pc[p] = "wait_check"
    /\ CanRLock
    /\ pc' = [pc EXCEPT ![p] = "wait_select"]
    /\ UNCHANGED <<args, refillRate, apiVars, routerVars>>
    /\ UNCHANGED <<bucketSize, tokens, tickerRunning, tickerC, stopCh,
                   stopped, muWriter, refillPc, ret, ctx, afterStop, calls,
                   ticks, refillSteps, refilled, allowTrue, waitNil,
                   stopReturned, closes, tickerStops, panicked>>

WaitCheck_HoldsLock(p) ==
    /\ ~panicked
    /\ pc[p] = "wait_check"
    /\ CanRLock
    /\ IF stopped
          THEN /\ Return(p, "stopped")
               /\ UNCHANGED muWriter
          ELSE /\ pc' = [pc EXCEPT ![p] = "wait_select"]
               /\ muWriter' = p
               /\ UNCHANGED <<ret, ctx, afterStop>>
    /\ UNCHANGED <<args, refillRate, apiVars, routerVars>>
    /\ UNCHANGED <<bucketSize, tokens, tickerRunning, tickerC, stopCh,
                   stopped, refillPc, calls, ticks, refillSteps,
                   refilled, allowTrue, waitNil, stopReturned, closes,
                   tickerStops, panicked>>

\* Wait: RLock; if tb.stopped { RUnlock; return ErrRateLimiterStopped };
\*       RUnlock
WaitCheck(p) ==
    /\ ~panicked
    /\ pc[p] = "wait_check"
    /\ CanRLock
    /\ IF stopped
          THEN Return(p, "stopped")
          ELSE /\ pc' = [pc EXCEPT ![p] = "wait_select"]
               /\ UNCHANGED <<ret, ctx, afterStop>>
    /\ UNCHANGED <<args, refillRate, apiVars, routerVars>>
    /\ UNCHANGED <<bucketSize, tokens, tickerRunning, tickerC, stopCh,
                   stopped, muWriter, refillPc, calls, ticks, refillSteps,
                   refilled, allowTrue, waitNil, stopReturned, closes,
                   tickerStops, panicked>>

WaitSelect_NoToken(p) ==
    /\ ~panicked
    /\ pc[p] = "wait_select"
    /\ \/ /\ tokens' = IF tokens > 0 THEN tokens - 1 ELSE 0
          /\ waitNil' = waitNil + 1
          /\ Return(p, "nil")
       \/ /\ CtxIsDone(p)
          /\ UNCHANGED <<tokens, waitNil>>
          /\ Return(p, "ctxErr")
    /\ UNCHANGED <<args, refillRate, apiVars, routerVars>>
    /\ UNCHANGED <<bucketSize, tickerRunning, tickerC, stopCh, stopped,
                   muWriter, refillPc, calls, ticks, refillSteps,
                   refilled, allowTrue, stopReturned, closes, tickerStops,
                   panicked>>

WaitSelect_CtxTakes(p) ==
    /\ ~panicked
    /\ pc[p] = "wait_select"
    /\ \/ /\ tokens > 0
          /\ tokens' = tokens - 1
          /\ waitNil' = waitNil + 1
          /\ Return(p, "nil")
       \/ /\ CtxIsDone(p)
          /\ tokens' = IF tokens > 0 THEN tokens - 1 ELSE 0
          /\ UNCHANGED waitNil
          /\ Return(p, "ctxErr")
    /\ UNCHANGED <<args, refillRate, apiVars, routerVars>>
    /\ UNCHANGED <<bucketSize, tickerRunning, tickerC, stopCh, stopped,
                   muWriter, refillPc, calls, ticks, refillSteps,
                   refilled, allowTrue, stopReturned, closes, tickerStops,
                   panicked>>

WaitSelect_NoCtx(p) ==
    /\ ~panicked
    /\ pc[p] = "wait_select"
    /\ tokens > 0
    /\ tokens' = tokens - 1
    /\ waitNil' = waitNil + 1
    /\ Return(p, "nil")
    /\ UNCHANGED <<args, refillRate, apiVars, routerVars>>
    /\ UNCHANGED <<bucketSize, tickerRunning, tickerC, stopCh, stopped,
                   muWriter, refillPc, calls, ticks, refillSteps,
                   refilled, allowTrue, stopReturned, closes, tickerStops,
                   panicked>>

\* Wait: select { case <-tb.tokens: return nil;
\*                case <-ctx.Done(): return ctx.Err() }
WaitSelect_StoppedWhenEmpty(p) ==
    /\ ~panicked
    /\ pc[p] = "wait_select"
    /\ \/ /\ tokens > 0
          /\ tokens' = tokens - 1
          /\ waitNil' = waitNil + 1
          /\ Return(p, "nil")
       \/ /\ CtxIsDone(p)
          /\ UNCHANGED <<tokens, waitNil>>
          /\ Return(p, "ctxErr")
       \/ /\ tokens = 0
          /\ UNCHANGED <<tokens, waitNil>>
          /\ Return(p, "stopped")
    /\ UNCHANGED <<args, refillRate, apiVars, routerVars>>
    /\ UNCHANGED <<bucketSize, tickerRunning, tickerC, stopCh, stopped,
                   muWriter, refillPc, calls, ticks, refillSteps,
                   refilled, allowTrue, stopReturned, closes, tickerStops,
                   panicked>>

\* The select blocks while neither case is ready and takes either one when
\* both are.
WaitSelect(p) ==
    /\ ~panicked
    /\ pc[p] = "wait_select"
    /\ \/ /\ tokens > 0
          /\ tokens' = tokens - 1
          /\ waitNil' = waitNil + 1
          /\ Return(p, "nil")
       \/ /\ CtxIsDone(p)
          /\ UNCHANGED <<tokens, waitNil>>
          /\ Return(p, "ctxErr")
    /\ UNCHANGED <<args, refillRate, apiVars, routerVars>>
    /\ UNCHANGED <<bucketSize, tickerRunning, tickerC, stopCh, stopped,
                   muWriter, refillPc, calls, ticks, refillSteps,
                   refilled, allowTrue, stopReturned, closes, tickerStops,
                   panicked>>

\* ------------------------------------------------------------------- Stop
\* A caller enters Stop and reaches tb.mu.Lock().
StopCall(p) ==
    /\ ~panicked
    /\ pc[p] = "idle"
    /\ calls < MaxCalls
    /\ calls' = calls + 1
    /\ pc' = [pc EXCEPT ![p] = "stop_lock"]
    /\ ctx' = [ctx EXCEPT ![p] = "background"]
    /\ afterStop' = [afterStop EXCEPT ![p] = stopReturned]
    /\ UNCHANGED <<args, refillRate, apiVars, routerVars>>
    /\ UNCHANGED <<bucketSize, tokens, tickerRunning, tickerC, stopCh,
                   stopped, muWriter, refillPc, ret, ticks, refillSteps,
                   refilled, allowTrue, waitNil, stopReturned, closes,
                   tickerStops, panicked>>

StopLock_NoGuard(p) ==
    /\ ~panicked
    /\ pc[p] = "stop_lock"
    /\ CanLock
    /\ muWriter' = p
    /\ stopped' = TRUE
    /\ tickerRunning' = FALSE
    /\ tickerC' = 0
    /\ tickerStops' = tickerStops + 1
    /\ pc' = [pc EXCEPT ![p] = "stop_close"]
    /\ UNCHANGED <<stopReturned, ret, ctx, afterStop>>
    /\ UNCHANGED <<args, refillRate, apiVars, routerVars>>
    /\ UNCHANGED <<bucketSize, tokens, stopCh, refillPc, calls, ticks,
                   refillSteps, refilled, allowTrue, waitNil, closes,
                   panicked>>

\* Stop: Lock; if tb.stopped { return } (the deferred Unlock runs);
\*       tb.stopped = true; tb.ticker.Stop()
\* tb.stopped is read only under tb.mu, so the steps up to ticker.Stop()
\* are taken as one. go.mod selects go 1.24, where a tick prepared before
\* ticker.Stop() is never received after it.
StopLock(p) ==
    /\ ~panicked
    /\ pc[p] = "stop_lock"
    /\ CanLock
    /\ IF stopped
          THEN /\ stopReturned' = TRUE
               /\ Return(p, "returned")
               /\ UNCHANGED <<muWriter, stopped, tickerRunning, tickerC,
                              tickerStops>>
          ELSE /\ muWriter' = p
               /\ stopped' = TRUE
               /\ tickerRunning' = FALSE
               /\ tickerC' = 0
               /\ tickerStops' = tickerStops + 1
               /\ pc' = [pc EXCEPT ![p] = "stop_close"]
               /\ UNCHANGED <<stopReturned, ret, ctx, afterStop>>
    /\ UNCHANGED <<args, refillRate, apiVars, routerVars>>
    /\ UNCHANGED <<bucketSize, tokens, stopCh, refillPc, calls, ticks,
                   refillSteps, refilled, allowTrue, waitNil, closes,
                   panicked>>

StopClose_Drains(p) ==
    /\ ~panicked
    /\ pc[p] = "stop_close"
    /\ closes' = closes + 1
    /\ tokens' = 0
    /\ IF stopCh = "closed"
          THEN /\ panicked' = TRUE
               /\ UNCHANGED <<stopCh, muWriter, stopReturned, pc, ret, ctx,
                              afterStop>>
          ELSE /\ stopCh' = "closed"
               /\ muWriter' = 0
               /\ stopReturned' = TRUE
               /\ Return(p, "returned")
               /\ UNCHANGED panicked
    /\ UNCHANGED <<args, refillRate, apiVars, routerVars>>
    /\ UNCHANGED <<bucketSize, tickerRunning, tickerC, stopped,
                   refillPc, calls, ticks, refillSteps, refilled, allowTrue,
                   waitNil, tickerStops>>

\* Stop: close(tb.stopCh), the deferred tb.mu.Unlock() and the return;
\* closing a closed channel panics.
StopClose(p) ==
    /\ ~panicked
    /\ pc[p] = "stop_close"
    /\ closes' = closes + 1
    /\ IF stopCh = "closed"
          THEN /\ panicked' = TRUE
               /\ UNCHANGED <<stopCh, muWriter, stopReturned, pc, ret, ctx,
                              afterStop>>
          ELSE /\ stopCh' = "closed"
               /\ muWriter' = 0
               /\ stopReturned' = TRUE
               /\ Return(p, "returned")
               /\ UNCHANGED panicked
    /\ UNCHANGED <<args, refillRate, apiVars, routerVars>>
    /\ UNCHANGED <<bucketSize, tokens, tickerRunning, tickerC, stopped,
                   refillPc, calls, ticks, refillSteps, refilled, allowTrue,
                   waitNil, tickerStops>>

\* ------------------------------------------------------------- behaviours
\* The steps of caller p inside a call.
ProcStep(p) ==
    \/ AllowCheck(p) \/ AllowSelect(p)
    \/ WaitCheck(p) \/ WaitSelect(p)
    \/ StopLock(p) \/ StopClose(p)

Next ==
    \/ Tick
    \/ RefillRecv
    \/ RefillStop
    \/ RefillAdd
    \/ \E p \in Procs : AllowCall(p)
    \/ \E p \in Procs : AllowCheck(p)
    \/ \E p \in Procs : AllowSelect(p)
    \/ \E p \in Procs : \E c \in CtxKinds : WaitCall(p, c)
    \/ \E p \in Procs : CtxDone(p)
    \/ \E p \in Procs : WaitCheck(p)
    \/ \E p \in Procs : WaitSelect(p)
    \/ \E p \in Procs : StopCall(p)
    \/ \E p \in Procs : StopLock(p)
    \/ \E p \in Procs : StopClose(p)

Spec == Init /\ [][Next]_vars

\* The Go scheduler runs every goroutine that stays runnable. Nothing
\* obliges a caller to start a call, a context to be cancelled or the
\* ticker to fire again.
Fairness ==
    /\ WF_vars(RefillRecv)
    /\ WF_vars(RefillStop)
    /\ WF_vars(RefillAdd)
    /\ \A p \in Procs : WF_vars(ProcStep(p))

FairSpec == Init /\ [][Next]_vars /\ Fairness

\* The bucket right after it was drained: construction followed by
\* bucketSize Allow calls that each returned true (the tests drain the
\* bucket this way before they start their waiters).
InitDrained ==
    /\ \E c \in BucketSizeArgs :
          /\ args = [bucketSize |-> c, refillRate |-> DefaultRefillRate]
          /\ bucketSize = NewBucketSize(c)
          /\ tokens = 0
          /\ allowTrue = InitialFill(NewBucketSize(c))
    /\ refillRate = NewRefillRate(DefaultRefillRate)
    /\ NoAPIClient
    /\ NoRouter
    /\ tickerRunning = TRUE
    /\ tickerC = 0
    /\ stopCh = "open"
    /\ stopped = FALSE
    /\ muWriter = 0
    /\ refillPc = "select"
    /\ pc = [p \in Procs |-> "idle"]
    /\ ret = [val |-> "true", afterStop |-> FALSE, ctx |-> "background"]
    /\ ctx = [p \in Procs |-> "background"]
    /\ afterStop = [p \in Procs |-> FALSE]
    /\ calls = 0
    /\ ticks = 0
    /\ refillSteps = 0
    /\ refilled = 0
    /\ waitNil = 0
    /\ stopReturned = FALSE
    /\ closes = 0
    /\ tickerStops = 0
    /\ panicked = FALSE

\* From the drained bucket: callers that only call Wait, the ticker and
\* the refill goroutine; nobody calls Stop.
NextDrained ==
    \/ Tick
    \/ RefillRecv
    \/ RefillAdd
    \/ \E p \in Procs : \E c \in CtxKinds : WaitCall(p, c)
    \/ \E p \in Procs : CtxDone(p)
    \/ \E p \in Procs : WaitCheck(p)
    \/ \E p \in Procs : WaitSelect(p)

SpecDrained == InitDrained /\ [][NextDrained]_vars

\* The tokens the bucket was built with have all been granted to Wait
\* calls.
InitialTokensHandedOut == waitNil >= bucketSize

\* A caller of the concurrency test enters Wait; its context (a timeout
\* far longer than the grant of the initial tokens takes) is not done
\* before the initial tokens are handed out.
WaitCallFresh(p, c) ==
    /\ c = "done" => InitialTokensHandedOut
    /\ WaitCall(p, c)

\* The timeout of a waiter of the concurrency test expires, not before
\* the initial tokens are handed out.
CtxDoneLate(p) ==
    /\ InitialTokensHandedOut
    /\ CtxDone(p)

\* From the freshly built, full bucket: concurrent callers that only call
\* Wait, the ticker and the refill goroutine; nobody calls Stop before the
\* calls are over.
NextConcurrentWaits ==
    \/ Tick
    \/ RefillRecv
    \/ RefillAdd
    \/ \E p \in Procs : \E c \in CtxKinds : WaitCallFresh(p, c)
    \/ \E p \in Procs : CtxDoneLate(p)
    \/ \E p \in Procs : WaitCheck(p)
    \/ \E p \in Procs : WaitSelect(p)

SpecConcurrentWaits == Init /\ [][NextConcurrentWaits]_vars

\* A bucket built with any arguments, then callers of Allow only (the
\* construction tests read the accessors of the bucket right after
\* NewTokenBucket; Allow stands for the use that follows).
NextAnyArgs ==
    \/ \E p \in Procs : AllowCall(p)
    \/ \E p \in Procs : AllowCheck(p)
    \/ \E p \in Procs : AllowSelect(p)

SpecAnyArgs == InitAnyArgs /\ [][NextAnyArgs]_vars

\* ============================================================== APIClient
\* NewAPIClient: a non-positive RequestsPerMinute or TokensPerMinute is
\* replaced by its default.
NewRequestsPerMinute(rpm) ==
    IF rpm <= 0 THEN DefaultRequestsPerMinute ELSE rpm

NewTokensPerMinute(tpm) ==
    IF tpm <= 0 THEN DefaultTokensPerMinute ELSE tpm

\* countInputTokens: extractMessageContent returns "", so every message
\* counts 4 and the reply priming 2; when no encoding can be loaded the
\* caller logs the error and goes on with 0.
CountInputTokens(m, encOk) == IF encOk THEN 4 * m + 2 ELSE 0

\* NewAPIClient(config): two full, running buckets of the configured
\* sizes, nobody calling. The refill rates (time.Minute divided by the
\* size) only name the periods of the two tickers, whose firings are the
\* LimTick steps.
NewAPIClient(rpm, tpm) ==
    /\ limSize = [l \in Limiters |->
                     IF l = "request"
                        THEN NewBucketSize(NewRequestsPerMinute(rpm))
                        ELSE NewBucketSize(NewTokensPerMinute(tpm))]
    /\ limTokens = [l \in Limiters |->
                       IF l = "request"
                          THEN InitialFill(NewBucketSize(NewRequestsPerMinute(rpm)))
                          ELSE InitialFill(NewBucketSize(NewTokensPerMinute(tpm)))]
    /\ limStopped = [l \in Limiters |-> FALSE]
    /\ limTicks = 0
    /\ cpc = [p \in Procs |-> "idle"]
    /\ cCtx = [p \in Procs |-> "background"]
    /\ cN = [p \in Procs |-> 0]
    /\ cI = [p \in Procs |-> 0]
    /\ cTook = [p \in Procs |-> [l \in Limiters |-> 0]]
    /\ cAfterClose = [p \in Procs |-> FALSE]
    /\ cRet = [val |-> "none", cause |-> "none", afterClose |-> FALSE,
               took |-> [l \in Limiters |-> 0]]
    /\ cCalls = 0
    /\ apiIssued = 0
    /\ closeReturned = FALSE

\* ------------------------------------------------- the limiters' refills
\* refillTokens of limiter l: a tick is received and the non-blocking send
\* into tb.tokens is done, in one step. A stopped ticker delivers nothing;
\* the tick that a refill goroutine may still handle after Stop is part of
\* the bucket's own behaviours above and is left out here.
LimRefill(l) ==
    /\ ~limStopped[l]
    /\ limTicks < MaxLimTicks
    /\ limTicks' = limTicks + 1
    /\ limTokens' = [limTokens EXCEPT ![l] =
                        IF limTokens[l] < limSize[l]
                           THEN limTokens[l] + 1
                           ELSE limTokens[l]]
    /\ UNCHANGED <<bucketVars, routerVars, limSize, limStopped, cpc,
                   cCtx, cN, cI, cTook, cAfterClose, cRet, cCalls, apiIssued,
                   closeReturned>>

\* ---------------------------------------------------- CreateChatCompletion
CreatePcs == {"req_check", "req_select", "tok_check", "tok_select", "api"}

\* A call of the APIClient returns v to caller p; cause is the error of
\* the limiter that a failed admission wraps, and for a failed admission
\* the tokens the call had taken are kept on record.
CReturn(p, v, cause) ==
    /\ cpc' = [cpc EXCEPT ![p] = "idle"]
    /\ cRet' = [val |-> v, cause |-> cause, afterClose |-> cAfterClose[p],
                took |-> IF v \in {"reqErr", "tokErr"}
                            THEN cTook[p]
                            ELSE [l \in Limiters |-> 0]]
    /\ cCtx' = [cCtx EXCEPT ![p] = "background"]
    /\ cN' = [cN EXCEPT ![p] = 0]
    /\ cI' = [cI EXCEPT ![p] = 0]
    /\ cTook' = [cTook EXCEPT ![p] = [l \in Limiters |-> 0]]
    /\ cAfterClose' = [cAfterClose EXCEPT ![p] = FALSE]

\* ctx.Done() of the call of caller p may be closed: a context other than
\* context.Background() may be done at any moment of the call, so the
\* <-ctx.Done() case of a select of Wait may be ready whenever the select
\* is reached or waited in.
CCtxMayBeDone(p) == cCtx[p] = "live"

\* A caller enters CreateChatCompletion with m messages and context c and
\* computes inputTokens.
CreateCall(p, m, encOk, c) ==
    /\ cpc[p] = "idle"
    /\ cCalls' = cCalls + 1
    /\ cCtx' = [cCtx EXCEPT ![p] = c]
    /\ cN' = [cN EXCEPT ![p] = CountInputTokens(m, encOk)]
    /\ cI' = [cI EXCEPT ![p] = 0]
    /\ cTook' = [cTook EXCEPT ![p] = [l \in Limiters |-> 0]]
    /\ cAfterClose' = [cAfterClose EXCEPT ![p] = closeReturned]
    /\ cpc' = [cpc EXCEPT ![p] = "req_check"]
    /\ UNCHANGED <<bucketVars, routerVars, limSize, limTokens, limStopped,
                   limTicks, cRet, apiIssued, closeReturned>>

ReqCheck_IgnoreStopped(p) ==
    /\ cpc[p] = "req_check"
    /\ cpc' = [cpc EXCEPT ![p] = "req_select"]
    /\ UNCHANGED <<cRet, cCtx, cN, cI, cTook, cAfterClose>>
    /\ UNCHANGED <<bucketVars, routerVars, limSize, limTokens, limStopped,
                   limTicks, cCalls, apiIssued, closeReturned>>

\* c.requestLimiter.Wait(ctx): the stopped check of Wait; an error is
\* wrapped and returned.
ReqCheck(p) ==
    /\ cpc[p] = "req_check"
    /\ IF limStopped["request"]
          THEN CReturn(p, "reqErr", "stopped")
          ELSE /\ cpc' = [cpc EXCEPT ![p] = "req_select"]
               /\ UNCHANGED <<cRet, cCtx, cN, cI, cTook, cAfterClose>>
    /\ UNCHANGED <<bucketVars, routerVars, limSize, limTokens, limStopped,
                   limTicks, cCalls, apiIssued, closeReturned>>

\* c.requestLimiter.Wait(ctx): the select of Wait; with the token the
\* caller goes on to the loop, or past it when inputTokens is 0.
ReqSelect(p) ==
    /\ cpc[p] = "req_select"
    /\ \/ /\ limTokens["request"] > 0
          /\ limTokens' = [limTokens EXCEPT !["request"] = @ - 1]
          /\ cTook' = [cTook EXCEPT ![p]["request"] = @ + 1]
          /\ cpc' = [cpc EXCEPT ![p] =
                        IF cI[p] < cN[p] THEN "tok_check" ELSE "api"]
          /\ UNCHANGED <<cRet, cCtx, cN, cI, cAfterClose>>
       \/ /\ CCtxMayBeDone(p)
          /\ CReturn(p, "reqErr", "ctxErr")
          /\ UNCHANGED limTokens
    /\ UNCHANGED <<bucketVars, routerVars, limSize, limStopped,
                   limTicks, cCalls, apiIssued, closeReturned>>

\* c.tokenLimiter.Wait(ctx) in the loop: the stopped check of Wait.
TokCheck(p) ==
    /\ cpc[p] = "tok_check"
    /\ IF limStopped["token"]
          THEN CReturn(p, "tokErr", "stopped")
          ELSE /\ cpc' = [cpc EXCEPT ![p] = "tok_select"]
               /\ UNCHANGED <<cRet, cCtx, cN, cI, cTook, cAfterClose>>
    /\ UNCHANGED <<bucketVars, routerVars, limSize, limTokens, limStopped,
                   limTicks, cCalls, apiIssued, closeReturned>>

TokSelect_OneShort(p) ==
    /\ cpc[p] = "tok_select"
    /\ \/ /\ limTokens["token"] > 0
          /\ limTokens' = [limTokens EXCEPT !["token"] = @ - 1]
          /\ cTook' = [cTook EXCEPT ![p]["token"] = @ + 1]
          /\ cI' = [cI EXCEPT ![p] = @ + 1]
          /\ cpc' = [cpc EXCEPT ![p] =
                        IF cI[p] + 2 < cN[p] THEN "tok_check" ELSE "api"]
          /\ UNCHANGED <<cRet, cCtx, cN, cAfterClose>>
       \/ /\ CCtxMayBeDone(p)
          /\ CReturn(p, "tokErr", "ctxErr")
          /\ UNCHANGED limTokens
    /\ UNCHANGED <<bucketVars, routerVars, limSize, limStopped,
                   limTicks, cCalls, apiIssued, closeReturned>>

TokSelect_Refund(p) ==
    /\ cpc[p] = "tok_select"
    /\ \/ /\ limTokens["token"] > 0
          /\ limTokens' = [limTokens EXCEPT !["token"] = @ - 1]
          /\ cTook' = [cTook EXCEPT ![p]["token"] = @ + 1]
          /\ cI' = [cI EXCEPT ![p] = @ + 1]
          /\ cpc' = [cpc EXCEPT ![p] =
                        IF cI[p] + 1 < cN[p] THEN "tok_check" ELSE "api"]
          /\ UNCHANGED <<cRet, cCtx, cN, cAfterClose>>
       \/ /\ CCtxMayBeDone(p)
          /\ CReturn(p, "tokErr", "ctxErr")
          /\ limTokens' = [l \in Limiters |-> limTokens[l] + cTook[p][l]]
    /\ UNCHANGED <<bucketVars, routerVars, limSize, limStopped,
                   limTicks, cCalls, apiIssued, closeReturned>>

\* c.tokenLimiter.Wait(ctx) in the loop: the select of Wait, then i++ and
\* the loop condition.
TokSelect(p) ==
    /\ cpc[p] = "tok_select"
    /\ \/ /\ limTokens["token"] > 0
          /\ limTokens' = [limTokens EXCEPT !["token"] = @ - 1]
          /\ cTook' = [cTook EXCEPT ![p]["token"] = @ + 1]
          /\ cI' = [cI EXCEPT ![p] = @ + 1]
          /\ cpc' = [cpc EXCEPT ![p] =
                        IF cI[p] + 1 < cN[p] THEN "tok_check" ELSE "api"]
          /\ UNCHANGED <<cRet, cCtx, cN, cAfterClose>>
       \/ /\ CCtxMayBeDone(p)
          /\ CReturn(p, "tokErr", "ctxErr")
          /\ UNCHANGED limTokens
    /\ UNCHANGED <<bucketVars, routerVars, limSize, limStopped,
                   limTicks, cCalls, apiIssued, closeReturned>>

\* c.client.Chat.Completions.New(ctx, req): the gated call is issued; the
\* remote service answers or fails.
ApiCall(p) ==
    /\ cpc[p] = "api"
    /\ apiIssued' = apiIssued + 1
    /\ \E r \in {"ok", "apiErr"} : CReturn(p, r, "none")
    /\ UNCHANGED <<bucketVars, routerVars, limSize, limTokens, limStopped,
                   limTicks, cCalls, closeReturned>>

\* ------------------------------------------------------------------ Close
\* Stop of limiter l, all of it under tb.mu: nothing when already stopped,
\* else the flag is set, the ticker stopped and the stop channel closed.
LimStop(l) ==
    limStopped' = [limStopped EXCEPT ![l] = TRUE]

\* A caller enters Close.
CloseCall(p) ==
    /\ cpc[p] = "idle"
    /\ cCalls < MaxClientCalls
    /\ cCalls' = cCalls + 1
    /\ cAfterClose' = [cAfterClose EXCEPT ![p] = closeReturned]
    /\ cpc' = [cpc EXCEPT ![p] = "close_request"]
    /\ UNCHANGED <<bucketVars, routerVars, limSize, limTokens, limStopped,
                   limTicks, cCtx, cN, cI, cTook, cRet,
                   apiIssued, closeReturned>>

\* Close: c.requestLimiter.Stop()
CloseRequest(p) ==
    /\ cpc[p] = "close_request"
    /\ LimStop("request")
    /\ cpc' = [cpc EXCEPT ![p] = "close_token"]
    /\ UNCHANGED <<bucketVars, routerVars, limSize, limTokens,
                   limTicks, cCtx, cN, cI, cTook, cAfterClose, cRet, cCalls,
                   apiIssued, closeReturned>>

\* Close: c.tokenLimiter.Stop() and the return.
CloseToken(p) ==
    /\ cpc[p] = "close_token"
    /\ LimStop("token")
    /\ closeReturned' = TRUE
    /\ CReturn(p, "closed", "none")
    /\ UNCHANGED <<bucketVars, routerVars, limSize, limTokens,
                   limTicks, cCalls, apiIssued>>

\* ------------------------------------------------------------- behaviours
APIClientConfigs ==
    (1..MaxRequestsPerMinute) \X (1..MaxTokensPerMinute)

InitAPIClient ==
    /\ NewTokenBucket(DefaultBucketSize, DefaultRefillRate)
    /\ \E cfg \in APIClientConfigs : NewAPIClient(cfg[1], cfg[2])
    /\ NoRouter

\* A call of CreateChatCompletion with a context that can be done: the
\* calls whose context never is are those that never take the
\* <-ctx.Done() case.
CreateCallLive(p, m, encOk) ==
    /\ cCalls < MaxClientCalls
    /\ CreateCall(p, m, encOk, "live")

NextAPIClient ==
    \/ \E l \in Limiters : LimRefill(l)
    \/ \E p \in Procs : \E m \in 0..MaxMessages : \E encOk \in BOOLEAN :
          CreateCallLive(p, m, encOk)
    \/ \E p \in Procs : ReqCheck(p)
    \/ \E p \in Procs : ReqSelect(p)
    \/ \E p \in Procs : TokCheck(p)
    \/ \E p \in Procs : TokSelect(p)
    \/ \E p \in Procs : ApiCall(p)
    \/ \E p \in Procs : CloseCall(p)
    \/ \E p \in Procs : CloseRequest(p)
    \/ \E p \in Procs : CloseToken(p)

SpecAPIClient == InitAPIClient /\ [][NextAPIClient]_vars

\* The admission scenario: an APIClient with a fresh request bucket of
\* ScenarioRequests and a fresh token bucket of ScenarioUnits, no tick of
\* either refill goroutine, and one caller that issues one call after the
\* other, each with ScenarioMessages messages and context.Background(),
\* one call more than the request bucket holds.
AdmissionCaller == 1

InitAdmission ==
    /\ NewTokenBucket(DefaultBucketSize, DefaultRefillRate)
    /\ NewAPIClient(ScenarioRequests, ScenarioUnits)
    /\ NoRouter

AdmissionCall(p) ==
    /\ cCalls <= ScenarioRequests
    /\ CreateCall(p, ScenarioMessages, TRUE, "background")

NextAdmission ==
    \/ AdmissionCall(AdmissionCaller)
    \/ ReqCheck(AdmissionCaller)
    \/ ReqSelect(AdmissionCaller)
    \/ TokCheck(AdmissionCaller)
    \/ TokSelect(AdmissionCaller)
    \/ ApiCall(AdmissionCaller)

SpecAdmission == InitAdmission /\ [][NextAdmission]_vars

\* ================================================================= Router
\* router.go holds two Routers: one that picks the client by a counter and
\* one that picks the client reporting the most available tokens.
RouterKinds == {"counter", "tokens"}

\* NewRouter(clients, logger): the clients in the order given, the counter
\* at its zero value, nobody calling. avail is what AvailableTokens() of
\* each client reports at first.
NewRouter(kind, n, avail) ==
    /\ rKind = kind
    /\ rClients = n
    /\ rAvail = avail
    /\ rCounter = 0
    /\ rpc = [p \in Procs |-> "idle"]
    /\ rIndex = [p \in Procs |-> 0]
    /\ rSelected = [p \in Procs |-> 0]
    /\ rHandled = [c \in 1..n |-> 0]
    /\ rCalls = 0
    /\ rRet = [val |-> "none", client |-> 0]

\* A caller enters Router.CreateChatCompletion.
RouterCall(p) ==
    /\ rpc[p] = "idle"
    /\ rCalls < MaxRouterCalls
    /\ rCalls' = rCalls + 1
    /\ rpc' = [rpc EXCEPT ![p] = "check"]
    /\ UNCHANGED <<bucketVars, apiVars, rKind, rClients, rAvail, rCounter,
                   rIndex, rSelected, rHandled, rRet>>

RouterCheck_AfterCount(p) ==
    /\ rpc[p] = "check"
    /\ rCounter' = rCounter + 1
    /\ IF rClients = 0
          THEN /\ rpc' = [rpc EXCEPT ![p] = "idle"]
               /\ rRet' = [val |-> "err", client |-> 0]
          ELSE /\ rpc' = [rpc EXCEPT ![p] = "select"]
               /\ UNCHANGED rRet
    /\ UNCHANGED <<bucketVars, apiVars, rKind, rClients, rAvail, rIndex,
                   rSelected, rHandled, rCalls>>

\* if len(r.clients) == 0 { return nil, fmt.Errorf("no clients available") }
RouterCheck(p) ==
    /\ rpc[p] = "check"
    /\ IF rClients = 0
          THEN /\ rpc' = [rpc EXCEPT ![p] = "idle"]
               /\ rRet' = [val |-> "err", client |-> 0]
          ELSE /\ rpc' = [rpc EXCEPT ![p] = "select"]
               /\ UNCHANGED rRet
    /\ UNCHANGED <<bucketVars, apiVars, rKind, rClients, rAvail, rCounter,
                   rIndex, rSelected, rHandled, rCalls>>

\* r.clients[index%uint64(len(r.clients))], as a position from 1. The
\* counter is a uint64; no behaviour here comes near 2^64 calls, so the
\* counter never wraps.
ClientOfIndex(index) == (index % rClients) + 1

SelectByCounter_NotAtomic(p) ==
    /\ rpc[p] = "select"
    /\ rKind = "counter"
    /\ rIndex' = [rIndex EXCEPT ![p] = rCounter]
    /\ rCounter' = IF \E q \in Procs : rpc[q] = "dispatch"
                      THEN rCounter
                      ELSE rCounter + 1
    /\ rSelected' = [rSelected EXCEPT ![p] = ClientOfIndex(rCounter)]
    /\ rpc' = [rpc EXCEPT ![p] = "dispatch"]
    /\ UNCHANGED <<bucketVars, apiVars, rKind, rClients, rAvail, rHandled,
                   rCalls, rRet>>

\* index := atomic.AddUint64(&r.counter, 1) - 1 and the choice of
\* selectedClient, which uses only the index obtained.
SelectByCounter(p) ==
    /\ rpc[p] = "select"
    /\ rKind = "counter"
    /\ rIndex' = [rIndex EXCEPT ![p] = (rCounter + 1) - 1]
    /\ rCounter' = rCounter + 1
    /\ rSelected' = [rSelected EXCEPT ![p] = ClientOfIndex((rCounter + 1) - 1)]
    /\ rpc' = [rpc EXCEPT ![p] = "dispatch"]
    /\ UNCHANGED <<bucketVars, apiVars, rKind, rClients, rAvail, rHandled,
                   rCalls, rRet>>

\* The loop over r.clients of the other Router: from client i on, with the
\* greatest count seen so far and the client that reported it.
RECURSIVE MostTokensFrom(_, _, _)
MostTokensFrom(i, maxTokens, selected) ==
    IF i > rClients
       THEN selected
       ELSE IF rAvail[i] > maxTokens
               THEN MostTokensFrom(i + 1, rAvail[i], i)
               ELSE MostTokensFrom(i + 1, maxTokens, selected)

\* maxTokens := -1 and the loop: the first client among those reporting
\* the most available tokens.
SelectByTokens(p) ==
    /\ rpc[p] = "select"
    /\ rKind = "tokens"
    /\ rSelected' = [rSelected EXCEPT ![p] = MostTokensFrom(1, -1, 0)]
    /\ rpc' = [rpc EXCEPT ![p] = "dispatch"]
    /\ UNCHANGED <<bucketVars, apiVars, rKind, rClients, rAvail, rCounter,
                   rIndex, rHandled, rCalls, rRet>>

\* selectedClient.client.CreateChatCompletion(ctx, req): the client handles
\* the call and its answer is returned. What the client reports as
\* available afterwards is its own business: the mock client of the tests
\* reports the same number, an APIClient that took tokens reports fewer.
RouterDispatch(p) ==
    /\ rpc[p] = "dispatch"
    /\ rHandled' = [rHandled EXCEPT ![rSelected[p]] = @ + 1]
    /\ rRet' = [val |-> "ok", client |-> rSelected[p]]
    /\ \E a \in {rAvail[rSelected[p]], rAvail[rSelected[p]] - 1} :
          /\ a >= 0
          /\ rKind = "counter" => a = rAvail[rSelected[p]]
          /\ rAvail' = [rAvail EXCEPT ![rSelected[p]] = a]
    /\ rIndex' = [rIndex EXCEPT ![p] = 0]
    /\ rSelected' = [rSelected EXCEPT ![p] = 0]
    /\ rpc' = [rpc EXCEPT ![p] = "idle"]
    /\ UNCHANGED <<bucketVars, apiVars, rKind, rClients, rCounter, rCalls>>

\* ------------------------------------------------------------- behaviours
\* One caller issuing one call after the other, on either Router with 0 to
\* MaxClients clients. The clients of the counter Router report nothing.
RouterCaller == 1

InitRouter ==
    /\ NewTokenBucket(DefaultBucketSize, DefaultRefillRate)
    /\ NoAPIClient
    /\ \E kind \in RouterKinds : \E n \in 0..MaxClients :
          \E avail \in [1..n -> 0..MaxAvail] :
             /\ kind = "counter" => avail = [c \in 1..n |-> 0]
             /\ NewRouter(kind, n, avail)

NextRouter ==
    \/ RouterCall(RouterCaller)
    \/ RouterCheck(RouterCaller)
    \/ SelectByCounter(RouterCaller)
    \/ SelectByTokens(RouterCaller)
    \/ RouterDispatch(RouterCaller)

SpecRouter == InitRouter /\ [][NextRouter]_vars

\* Concurrent callers of the counter Router with 1 to MaxClients clients.
InitCounterRouter ==
    /\ NewTokenBucket(DefaultBucketSize, DefaultRefillRate)
    /\ NoAPIClient
    /\ \E n \in 1..MaxClients : NewRouter("counter", n, [c \in 1..n |-> 0])

NextCounterRouter ==
    \/ \E p \in Procs : RouterCall(p)
    \/ \E p \in Procs : RouterCheck(p)
    \/ \E p \in Procs : SelectByCounter(p)
    \/ \E p \in Procs : RouterDispatch(p)

SpecCounterRouter == InitCounterRouter /\ [][NextCounterRouter]_vars



\* ================================================================ claims
WaitPcs == {"wait_check", "wait_select"}
AllowPcs == {"allow_check", "allow_select"}

\* Caller p returns from its call in this step.
Returns(p) == pc[p] # "idle" /\ pc'[p] = "idle"

\* C1: a Wait call blocked on the empty bucket with a never-cancelled
\* context when Stop runs returns ErrRateLimiterStopped without a refill
\* tick: once Stop has returned and the refill goroutine has exited (no
\* token can arrive any more), such a call is not left blocked in its
\* select, it has a step to take.
C1_StopReleasesWaiters ==
    \A p \in Procs :
        (/\ pc[p] = "wait_select"
         /\ ctx[p] = "background"
         /\ tokens = 0
         /\ stopReturned
         /\ refillPc = "done")
        => ENABLED WaitSelect(p)

\* C2: once a Stop call has returned, no Allow call returns true and no
\* Wait call returns nil.
C2_NoGrantAfterStop ==
    [][stopReturned =>
          \A p \in Procs : ~(Returns(p) /\ ret'.val \in {"true", "nil"})]_vars

\* C3: the number of available tokens is within 0..bucketSize in every
\* reachable state.
C3_TokensInRange ==
    /\ tokens \in 0..bucketSize
    /\ AvailableTokens >= 0
    /\ AvailableTokens <= bucketSize

\* C3 witness: the bucket has been empty and a tick has found it full.
C3_Witness ==
    /\ tokens = bucketSize
    /\ refillSteps > refilled
    /\ allowTrue + waitNil >= bucketSize

\* C4: grants + available = capacity + ticks that added a token, hence
\* grants never exceed what was ever put into the bucket.
C4_Conservation ==
    /\ allowTrue + waitNil + tokens = bucketSize + refilled
    /\ allowTrue + waitNil <= bucketSize + refilled

\* C4 witness: Allow and Wait have both been granted tokens, one of them a
\* refilled token.
C4_Witness ==
    /\ allowTrue > 0
    /\ waitNil > 0
    /\ refilled > 0
    /\ allowTrue + waitNil > bucketSize

\* Nothing is left to happen for the waiters of the drained bucket: every
\* tick that fired has been handled, every caller is blocked in the select
\* of Wait or has returned, and the bucket is empty.
Settled ==
    /\ refillPc = "select"
    /\ tickerC = 0
    /\ tokens = 0
    /\ \A p \in Procs : pc[p] \in {"idle", "wait_select"}
    /\ \A p \in Procs : ~CtxIsDone(p)

\* C5 as stated: from the drained bucket, with N Wait calls and M < N
\* ticks handled by the refill goroutine, exactly M Wait calls have
\* returned nil once everything has settled.
C5_ExactlyM ==
    (Settled /\ refillSteps < calls) => waitNil = refillSteps

\* C5 amended: from the drained bucket, the Wait calls that returned nil
\* are never more than the M ticks handled, and they are exactly the ticks
\* that added a token minus the tokens still in the bucket; once settled
\* with M < N they are exactly the ticks that added a token.
C5_AtMostM ==
    /\ waitNil <= refillSteps
    /\ waitNil + tokens = refilled
    /\ (Settled /\ refillSteps < calls) => waitNil = refilled

\* C5 witness: three Wait calls, two ticks that each added a token, two
\* calls returned nil and the third is still blocked.
C5_Witness ==
    /\ calls = 3
    /\ refillSteps = 2
    /\ refilled = 2
    /\ waitNil = 2
    /\ Settled
    /\ \E p \in Procs : pc[p] = "wait_select"

\* C6: a Wait call that started after a Stop call returned never reaches
\* the blocking select, takes no token, and returns
\* ErrRateLimiterStopped.
C6_WaitAfterStop ==
    [][\A p \in Procs :
          (afterStop[p] /\ pc[p] \in WaitPcs /\ pc'[p] # pc[p]) =>
              /\ tokens' = tokens
              /\ pc'[p] # "wait_select"
              /\ (pc'[p] = "idle" => ret'.val = "stopped")]_vars

\* C6 witness: such a call has returned ErrRateLimiterStopped while tokens
\* remain in the bucket.
C6_Witness ==
    /\ ret.afterStop
    /\ ret.val = "stopped"
    /\ tokens > 0

\* C7: an Allow call that started after a Stop call returned takes no
\* token and returns false.
C7_AllowAfterStop ==
    [][\A p \in Procs :
          (afterStop[p] /\ pc[p] \in AllowPcs /\ pc'[p] # pc[p]) =>
              /\ tokens' = tokens
              /\ pc'[p] # "allow_select"
              /\ (pc'[p] = "idle" => ret'.val = "false")]_vars

\* C7 witness: such a call has returned false while tokens remain in the
\* bucket.
C7_Witness ==
    /\ ret.afterStop
    /\ ret.val = "false"
    /\ tokens > 0

\* C8: however many Stop calls run, the stop channel is closed at most
\* once and never twice (no panic), the ticker is stopped at most once,
\* both exactly once when a Stop call has returned, and a Stop call that
\* finds the bucket stopped returns without changing the bucket.
C8_StopIdempotent ==
    /\ [](/\ closes <= 1
          /\ tickerStops <= 1
          /\ ~panicked
          /\ (stopReturned =>
                 closes = 1 /\ tickerStops = 1 /\ stopCh = "closed"
                     /\ stopped /\ ~tickerRunning))
    /\ [][\A p \in Procs :
             (pc[p] = "stop_lock" /\ stopped /\ pc'[p] # pc[p]) =>
                 /\ pc'[p] = "idle"
                 /\ UNCHANGED <<bucketSize, tokens, tickerRunning, tickerC,
                                stopCh, stopped, refillPc, closes,
                                tickerStops, panicked>>]_vars

\* C8 witness: a Stop call that started after another Stop call had
\* returned has returned as well.
C8_Witness ==
    /\ ret.val = "returned"
    /\ ret.afterStop
    /\ closes = 1
    /\ stopCh = "closed"

\* No refill tick has been handled, no Wait call has taken a token and
\* nobody has stopped the bucket.
FreshAllowsOnly == refillSteps = 0 /\ waitNil = 0 /\ ~stopped

\* C9: on a fresh bucket with no refill tick, an Allow call returns true
\* exactly when fewer than bucketSize Allow calls have returned true
\* before it, each success takes one token, and after bucketSize successes
\* no token is available.
C9_FirstCapacityAllows ==
    /\ [](FreshAllowsOnly =>
             /\ allowTrue <= bucketSize
             /\ AvailableTokens = bucketSize - allowTrue)
    /\ [][\A p \in Procs :
             (FreshAllowsOnly /\ pc[p] \in AllowPcs /\ Returns(p)) =>
                 (ret'.val = "true" <=> allowTrue < bucketSize)]_vars

\* C9 witness: bucketSize Allow calls returned true, the next one returned
\* false, and no token is available.
C9_Witness ==
    /\ FreshAllowsOnly
    /\ ~stopReturned
    /\ allowTrue = bucketSize
    /\ calls = bucketSize + 1
    /\ AvailableTokens = 0
    /\ ret.val = "false"
    /\ \A p \in Procs : pc[p] = "idle"

\* C10: a tick handled by the refill goroutine adds exactly one token
\* below capacity and nothing at capacity, and an Allow that reaches its
\* select while a token is available returns true.
C10_RefillAddsOne ==
    [][/\ (refillPc = "tick" /\ refillPc' # "tick") =>
              tokens' = (IF tokens < bucketSize THEN tokens + 1 ELSE tokens)
       /\ \A p \in Procs :
              (pc[p] = "allow_select" /\ Returns(p) /\ tokens > 0) =>
                  ret'.val = "true"]_vars

\* C10 witness: the bucket was drained by Allow calls, one tick added one
\* token, and the following Allow returned true.
C10_Witness ==
    /\ allowTrue = bucketSize + 1
    /\ waitNil = 0
    /\ refilled = 1
    /\ tokens = 0
    /\ ret.val = "true"

\* C11: a Wait call whose context was already done when it was called and
\* that reaches its select returns the context's error and takes no token,
\* whether or not tokens are available.
C11_DoneCtxNeverGranted ==
    [][\A p \in Procs :
          (pc[p] = "wait_select" /\ ctx[p] = "done" /\ Returns(p)) =>
              /\ ret'.val = "ctxErr"
              /\ tokens' = tokens]_vars

\* C12: a Wait call blocked in its select whose context is cancelled or
\* times out is not left blocked (its select has a step to take), and when
\* it returns while the bucket is still empty it returns the context's
\* error, not nil and not ErrRateLimiterStopped, and the bucket stays
\* empty.
C12_CancelledWaitReturnsCtxErr ==
    /\ [](\A p \in Procs :
             (pc[p] = "wait_select" /\ ctx[p] = "cancelled") =>
                 ENABLED WaitSelect(p))
    /\ [][\A p \in Procs :
             (/\ pc[p] = "wait_select"
              /\ ctx[p] = "cancelled"
              /\ tokens = 0
              /\ Returns(p)) =>
                 /\ ret'.val = "ctxErr"
                 /\ tokens' = 0]_vars

\* C12 witness: from the drained bucket, with no token ever added, a Wait
\* call whose context was cancelled during the call has returned the
\* context's error.
C12_Witness ==
    /\ ret.val = "ctxErr"
    /\ ret.ctx = "cancelled"
    /\ refilled = 0
    /\ waitNil = 0
    /\ tokens = 0
    /\ ~stopped

\* C13: a step of a Wait call changes the token count only when the call
\* returns nil; a call that returns the context's error or
\* ErrRateLimiterStopped has left the token count and the count of grants
\* as they were.
C13_FailedWaitTakesNoToken ==
    [][\A p \in Procs :
          (pc[p] \in WaitPcs /\ pc'[p] # pc[p]) =>
              \/ /\ Returns(p)
                 /\ ret'.val = "nil"
                 /\ tokens' = tokens - 1
              \/ /\ Returns(p) => ret'.val \in {"ctxErr", "stopped"}
                 /\ tokens' = tokens
                 /\ waitNil' = waitNil]_vars

\* C13 witness: a Wait call has returned the context's error while the
\* bucket held a token, and the bucket is as full as it was built.
C13_Witness ==
    /\ ret.val = "ctxErr"
    /\ tokens = bucketSize
    /\ refilled = 0
    /\ allowTrue = 0
    /\ waitNil = 0

\* Steps the refill goroutine has left before it exits once the stop
\* channel is closed and the ticker stopped.
RefillRank == CASE refillPc = "tick" -> 2
                [] refillPc = "select" -> 1
                [] refillPc = "done" -> 0

\* C14: once a Stop call has returned, the refill goroutine is never
\* blocked before it has exited (handling a received tick never blocks,
\* whether the bucket is full or not, and at its select the closed stop
\* channel is ready), each of its steps brings it closer to its exit, and
\* once it has exited it never takes a step again.
C14_RefillTerminates ==
    /\ [](/\ (refillPc = "tick") => (ENABLED RefillAdd)
          /\ (stopReturned /\ refillPc = "select") => (ENABLED RefillStop)
          /\ stopReturned => ~(ENABLED RefillRecv))
    /\ [][/\ (stopReturned /\ refillPc' # refillPc) =>
                 (RefillRank' < RefillRank)
          /\ (refillPc = "done") =>
                 (/\ refillPc' = "done"
                  /\ UNCHANGED <<refillSteps, refilled, tickerC>>)]_vars

\* C14 witness: Stop has returned and the refill goroutine has exited,
\* after a tick that found the bucket full was dropped.
C14_Witness ==
    /\ stopReturned
    /\ refillPc = "done"
    /\ tokens = bucketSize
    /\ refillSteps > refilled

\* C15: once a Stop call has returned, no step increases the number of
\* tokens in the bucket.
C15_NoRefillAfterStop ==
    [][stopReturned => tokens' <= tokens]_vars

\* C16: from the drained bucket, a Wait call in its select whose context
\* is not done stays blocked while the bucket is empty and has a step to
\* take as soon as a refill tick has added a token; when it returns it
\* returns nil and takes one token that a tick had added, and when it is
\* the only call issued the bucket is left with the other added tokens.
C16_WaitReturnsAfterRefill ==
    /\ [](\A p \in Procs :
             (pc[p] = "wait_select" /\ ~CtxIsDone(p)) =>
                 ((ENABLED WaitSelect(p)) <=> (tokens > 0 /\ refilled > 0)))
    /\ [][\A p \in Procs :
             (pc[p] = "wait_select" /\ ~CtxIsDone(p) /\ Returns(p)) =>
                 /\ ret'.val = "nil"
                 /\ refilled > waitNil
                 /\ tokens > 0
                 /\ tokens' = tokens - 1
                 /\ (calls = 1 => tokens' = refilled - 1)]_vars

\* C16 witness: the only call issued is a Wait that was blocked on the
\* drained bucket; one tick added one token and the call returned nil
\* with it.
C16_Witness ==
    /\ calls = 1
    /\ refillSteps = 1
    /\ refilled = 1
    /\ waitNil = 1
    /\ ret.val = "nil"
    /\ tokens = 0
    /\ \A p \in Procs : pc[p] = "idle"

\* No caller has a step left: each one has returned or is blocked.
NoCallerCanStep ==
    \A p \in Procs : ~(ENABLED WaitCheck(p)) /\ ~(ENABLED WaitSelect(p))

\* C17: with concurrent Wait calls on the freshly built bucket whose
\* contexts are not done before the initial tokens are handed out, a
\* waiter in its select is never blocked while a token is available, no
\* call fails before bucketSize calls have returned nil nor while a token
\* is available and its context is not done, and once at least
\* bucketSize calls have been issued and no caller has a step left, at
\* least bucketSize calls have returned nil.
C17_AtLeastCapacitySucceed ==
    /\ [](/\ \A p \in Procs :
                (pc[p] = "wait_select" /\ tokens > 0) =>
                    (ENABLED WaitSelect(p))
          /\ (calls >= bucketSize /\ NoCallerCanStep) =>
                 waitNil >= bucketSize)
    /\ [][\A p \in Procs :
             (/\ Returns(p)
              /\ \/ ~InitialTokensHandedOut
                 \/ tokens > 0 /\ ~CtxIsDone(p)) =>
                 ret'.val = "nil"]_vars

\* C17 witness: more calls than the bucket holds were issued, bucketSize
\* of them returned nil with the initial tokens, and the remaining one is
\* blocked on the empty bucket.
C17_Witness ==
    /\ bucketSize = MaxBucketSize
    /\ calls > bucketSize
    /\ waitNil = bucketSize
    /\ refilled = 0
    /\ tokens = 0
    /\ NoCallerCanStep
    /\ \E p \in Procs : pc[p] = "wait_select"

\* C18: NewTokenBucket(c, r) yields a bucket whose BucketSize is c when
\* c > 0 and DefaultBucketSize otherwise, whose RefillRate is r when
\* r > 0 and DefaultRefillRate otherwise, both for as long as the bucket
\* is used, and whose AvailableTokens equals BucketSize before any call
\* and any refill.
C18_NewTokenBucketDefaults ==
    /\ BucketSize =
          (IF args.bucketSize > 0 THEN args.bucketSize ELSE DefaultBucketSize)
    /\ RefillRate =
          (IF args.refillRate > 0 THEN args.refillRate ELSE DefaultRefillRate)
    /\ (calls = 0 /\ refillSteps = 0) => AvailableTokens = BucketSize

\* C18 witness: NewTokenBucket(0, 0) has returned a bucket of the default
\* size and rate holding DefaultBucketSize tokens.
C18_Witness ==
    /\ args = [bucketSize |-> 0, refillRate |-> 0]
    /\ BucketSize = DefaultBucketSize
    /\ RefillRate = DefaultRefillRate
    /\ AvailableTokens = DefaultBucketSize
    /\ calls = 0

\* C19: a step of an Allow call changes the number of tokens only when the
\* call returns true, and then by exactly one; a call that returns false
\* leaves it as it was; and no step of an Allow call changes the stopped
\* flag, the stop channel, the mutex, the ticker, the refill goroutine or
\* the size and rate of the bucket.
C19_AllowFrame ==
    [][\A p \in Procs :
          (pc[p] \in AllowPcs /\ pc'[p] # pc[p]) =>
              /\ Returns(p) => ret'.val \in {"true", "false"}
              /\ tokens' = (IF Returns(p) /\ ret'.val = "true"
                               THEN tokens - 1
                               ELSE tokens)
              /\ UNCHANGED <<bucketSize, refillRate, stopped, stopCh,
                             muWriter, tickerRunning, tickerC, refillPc,
                             refillSteps, refilled, waitNil, stopReturned,
                             closes, tickerStops, panicked>>]_vars

\* C19 witness: Allow calls have returned true until the bucket was empty
\* and the latest one returned false on the running, empty bucket.
C19_Witness ==
    /\ allowTrue = bucketSize
    /\ allowTrue + 1 = calls
    /\ ret.val = "false"
    /\ tokens = 0
    /\ ~stopped
    /\ refillPc = "select"

\* C20: an Allow call is never blocked on the bucket: at its select it
\* has a step to take whether or not a token is available, whatever the
\* ticker, the refill goroutine and the other callers do, and before it
\* the read lock is available whenever no Stop call is inside its
\* critical section; the call returns after these two steps.
C20_AllowNeverWaits ==
    /\ [](\A p \in Procs :
             /\ (pc[p] = "allow_select") => (ENABLED AllowSelect(p))
             /\ (pc[p] = "allow_check" /\ muWriter = 0) =>
                    (ENABLED AllowCheck(p)))
    /\ [][\A p \in Procs :
             /\ (pc[p] = "allow_select" /\ pc'[p] # pc[p]) => Returns(p)
             /\ (pc[p] = "allow_check" /\ pc'[p] # pc[p]) =>
                    (Returns(p) \/ pc'[p] = "allow_select")]_vars

\* C20 witness: an Allow call has returned false on the empty bucket with
\* no tick ever fired, no Stop called and no other call in progress.
C20_Witness ==
    /\ ret.val = "false"
    /\ tokens = 0
    /\ ticks = 0
    /\ ~stopped
    /\ waitNil = 0
    /\ \A p \in Procs : pc[p] = "idle"

\* The Wait calls of CreateChatCompletion, before the gated call.
AdmissionPcs == {"req_check", "req_select", "tok_check", "tok_select"}

\* C21: a caller of CreateChatCompletion is at the gated API call only
\* with one token taken from the request limiter and inputTokens tokens
\* from the token limiter; it is in a Wait on the token limiter only with
\* the request token taken, and in the Wait on the request limiter with
\* nothing taken; tokens leave a limiter one at a time; the gated call is
\* issued only by a caller at that point; and a call that returns out of
\* one of its Wait calls returns an error wrapping the context's error or
\* ErrRateLimiterStopped and issues no gated call.
C21_AdmissionBeforeCall ==
    /\ [](\A p \in Procs :
             /\ (cpc[p] = "api") =>
                    (cTook[p]["request"] = 1 /\ cTook[p]["token"] = cN[p])
             /\ (cpc[p] \in {"tok_check", "tok_select"}) =>
                    (/\ cTook[p]["request"] = 1
                     /\ cTook[p]["token"] = cI[p]
                     /\ cI[p] < cN[p])
             /\ (cpc[p] \in {"req_check", "req_select"}) =>
                    (cTook[p]["request"] = 0 /\ cTook[p]["token"] = 0))
    /\ [][/\ \A l \in Limiters : limTokens'[l] >= limTokens[l] - 1
          /\ (apiIssued' # apiIssued) =>
                 (/\ apiIssued' = apiIssued + 1
                  /\ \E p \in Procs : cpc[p] = "api" /\ cpc'[p] = "idle")
          /\ \A p \in Procs :
                 (cpc[p] \in AdmissionPcs /\ cpc'[p] = "idle") =>
                     (/\ cRet'.val =
                            (IF cpc[p] \in {"req_check", "req_select"}
                                THEN "reqErr" ELSE "tokErr")
                      /\ cRet'.cause \in {"ctxErr", "stopped"}
                      /\ apiIssued' = apiIssued)]_vars

\* C21 witness: the only call issued took one request token and its two
\* input tokens, issued the gated call and returned its answer.
C21_Witness ==
    /\ cCalls = 1
    /\ apiIssued = 1
    /\ cRet.val = "ok"
    /\ limTicks = 0
    /\ limTokens["request"] = limSize["request"] - 1
    /\ limTokens["token"] = limSize["token"] - CountInputTokens(0, TRUE)

\* What one call of the admission scenario takes from the token bucket.
ScenarioCost == CountInputTokens(ScenarioMessages, TRUE)

\* C22: in the admission scenario (request bucket of 10, token bucket of
\* 1000, no tick, successive calls taking 1 request token and 50 tokens
\* each) none of the first 10 calls ever finds a bucket empty and each
\* issues its gated call, so exactly 10 are admitted; the 11th call waits
\* in the select of the Wait on the request bucket with no case ready,
\* while the token bucket still holds 1000 - 10 * 50 = 500 tokens.
C22_ExactlyCapacityAdmitted ==
    /\ apiIssued <= ScenarioRequests
    /\ (cCalls <= ScenarioRequests) =>
           (/\ (cpc[AdmissionCaller] = "idle") => (apiIssued = cCalls)
            /\ (cpc[AdmissionCaller] = "req_select") =>
                   (ENABLED ReqSelect(AdmissionCaller))
            /\ (cpc[AdmissionCaller] = "tok_select") =>
                   (ENABLED TokSelect(AdmissionCaller)))
    /\ (cCalls = ScenarioRequests + 1) =>
           (/\ cpc[AdmissionCaller] \in {"req_check", "req_select"}
            /\ apiIssued = ScenarioRequests
            /\ limTokens["request"] = 0
            /\ limTokens["token"] =
                   ScenarioUnits - ScenarioRequests * ScenarioCost
            /\ limTokens["token"] > 0
            /\ (cpc[AdmissionCaller] = "req_select") =>
                   (~(ENABLED ReqSelect(AdmissionCaller))))

\* C22 witness: the 11th call is in the select of the Wait on the empty
\* request bucket after 10 gated calls, with 500 tokens in the token
\* bucket.
C22_Witness ==
    /\ cCalls = ScenarioRequests + 1
    /\ cpc[AdmissionCaller] = "req_select"
    /\ apiIssued = ScenarioRequests
    /\ limTokens["request"] = 0
    /\ limTokens["token"] = ScenarioUnits - ScenarioRequests * ScenarioCost
    /\ 2 * limTokens["token"] = ScenarioUnits

\* C23: with n >= 1 clients and one caller issuing one call after the
\* other, the i-th call of Router.CreateChatCompletion (counting from 0)
\* is handled by the client registered at position i mod n: the call that
\* has just returned, the rCalls-th, was answered by client
\* ((rCalls - 1) mod n) + 1, counting clients from 1.
C23_CyclicOrder ==
    (rClients >= 1 /\ rCalls >= 1 /\ rpc[RouterCaller] = "idle") =>
        (/\ rRet.val = "ok"
         /\ rRet.client = ((rCalls - 1) % rClients) + 1)

\* C24: on a Router with no clients a call of CreateChatCompletion never
\* gets past the length check, so it selects and invokes no client; it
\* returns the error; and no step changes the counter, the clients or
\* what they have handled.
C24_EmptyRouterFails ==
    /\ [](rClients = 0 =>
             /\ \A p \in Procs : rpc[p] \in {"idle", "check"}
             /\ rCounter = 0
             /\ rRet.client = 0
             /\ (rCalls >= 1 /\ rpc[RouterCaller] = "idle") =>
                    (rRet.val = "err"))
    /\ [][rClients = 0 =>
             UNCHANGED <<rKind, rClients, rAvail, rCounter, rHandled,
                         rIndex, rSelected>>]_vars

\* C24 witness: two calls on a Router without clients have returned the
\* error.
C24_Witness ==
    /\ rClients = 0
    /\ rCalls = 2
    /\ rpc[RouterCaller] = "idle"
    /\ rRet.val = "err"
    /\ rCounter = 0

\* Counter values below the counter that select client c.
IndexesOf(c) == {i \in 0..(rCounter - 1) : ClientOfIndex(i) = c}

\* Callers that hold a counter value and have not yet handed the call to
\* the client.
Dispatching == {p \in Procs : rpc[p] = "dispatch"}

\* C30: the counter Router under concurrent callers: calls in progress
\* hold pairwise distinct counter values, all below the counter; every
\* counter value handed out is either held by a call in progress or
\* accounted for in what its client has handled; so whenever n*k calls have
\* obtained a counter value and completed, each of the n clients has
\* handled exactly k calls.
C30_DistinctAndEven ==
    /\ \A p, q \in Dispatching : (p # q) => (rIndex[p] # rIndex[q])
    /\ \A p \in Dispatching :
          /\ rIndex[p] < rCounter
          /\ rSelected[p] = ClientOfIndex(rIndex[p])
    /\ \A c \in 1..rClients :
          rHandled[c] + Cardinality({p \in Dispatching : rSelected[p] = c})
              = Cardinality(IndexesOf(c))
    /\ (Dispatching = {} /\ rCounter % rClients = 0) =>
          (\A c \in 1..rClients : rHandled[c] = rCounter \div rClients)

\* C30 witness: two clients, two calls completed, one by each client, and
\* two more in progress at once, each holding its own counter value.
C30_Witness ==
    /\ rClients = 2
    /\ rCounter = 4
    /\ rHandled = <<1, 1>>
    /\ rpc[1] = "dispatch" /\ rIndex[1] = 3
    /\ rpc[2] = "dispatch" /\ rIndex[2] = 2

StopPcs == {"stop_lock", "stop_close"}

\* C25: Stop is never kept out by a caller of Wait or Allow: tb.mu is held
\* only by a caller of Stop between its Lock and its return, never by a
\* caller inside Wait or Allow, blocked or not; the holder can always take
\* its last step, which needs nothing from anyone and releases the lock;
\* and a Stop waiting for a free lock can take it. So as long as some
\* caller is inside Stop some step of a Stop is possible, each Stop
\* returns after at most two steps of its own, and it never panics.
C25_StopNeverBlocked ==
    /\ ~panicked
    /\ \A p \in Procs :
          /\ (pc[p] \in WaitPcs \cup AllowPcs) => (muWriter # p)
          /\ (pc[p] = "stop_close") =>
                 (muWriter = p /\ ENABLED StopClose(p))
          /\ (pc[p] = "stop_lock" /\ muWriter = 0) =>
                 (ENABLED StopLock(p))
    /\ (muWriter # 0) => (pc[muWriter] = "stop_close")

\* C25 witness: a Stop has returned while a Wait with a context that is
\* never done was blocked in its select on the empty bucket, where it
\* stays.
C25_Witness ==
    /\ tokens = 0
    /\ \E p \in Procs :
          pc[p] = "wait_select" /\ ctx[p] = "background" /\ ~afterStop[p]
    /\ stopped
    /\ stopReturned
    /\ ret.val = "returned"
    /\ muWriter = 0

\* C26: the latest return is ErrRateLimiterStopped only when tb.stopped is
\* set, which only a Stop does (it stops the ticker in the same step): as
\* long as no Stop has been called a Wait returns nil or the error of its
\* context.
C26_StoppedOnlyAfterStop ==
    /\ (ret.val = "stopped") => (stopped /\ tickerStops >= 1)
    /\ stopped => (tickerStops >= 1)
    /\ (tickerStops = 0) => (ret.val \in {"none", "true", "false", "nil", "ctxErr"})

\* C26 witness: a Wait has returned ErrRateLimiterStopped on a stopped
\* bucket that still holds tokens.
C26_Witness ==
    /\ ret.val = "stopped"
    /\ stopped
    /\ tokens > 0

\* C27: no step of a caller inside Stop changes the number of available
\* tokens, the capacity or the refill interval.
C27_StopKeepsTokens ==
    [][(\E p \in Procs : pc[p] \in StopPcs /\ pc'[p] # pc[p]) =>
           (/\ AvailableTokens' = AvailableTokens
            /\ BucketSize' = BucketSize
            /\ RefillRate' = RefillRate)]_vars

\* C27 witness: the only call was a Stop, it has returned, and the bucket
\* is as full as it was.
C27_Witness ==
    /\ calls = 1
    /\ ret.val = "returned"
    /\ stopReturned
    /\ stopped
    /\ AvailableTokens = BucketSize
    /\ AvailableTokens > 0

\* C28: a call of CreateChatCompletion that fails in its k-th Wait on the
\* token limiter (k = i + 1 <= inputTokens) returns the token error having
\* taken one request token and k - 1 tokens, and the failing step gives
\* nothing back; a call that fails in the Wait on the request limiter has
\* taken nothing; tokens come back into a limiter only by a tick of its
\* refill; so when the failed call was the only one and no tick came,
\* each limiter holds its capacity less what the call took.
C28_FailedAdmissionNotRefunded ==
    /\ [][/\ \A p \in Procs :
                (cpc[p] \in {"tok_check", "tok_select"} /\ cpc'[p] = "idle") =>
                    (/\ cI[p] < cN[p]
                     /\ cRet'.val = "tokErr"
                     /\ cRet'.took = [l \in Limiters |->
                                         IF l = "request" THEN 1 ELSE cI[p]]
                     /\ limTokens' = limTokens)
          /\ \A p \in Procs :
                (cpc[p] \in {"req_check", "req_select"} /\ cpc'[p] = "idle") =>
                    (/\ cRet'.val = "reqErr"
                     /\ cRet'.took = [l \in Limiters |-> 0]
                     /\ limTokens' = limTokens)
          /\ \A l \in Limiters :
                (limTokens'[l] > limTokens[l]) =>
                    (limTokens'[l] = limTokens[l] + 1 /\ limTicks' = limTicks + 1)
         ]_vars
    /\ []((cCalls = 1 /\ limTicks = 0 /\ cRet.val \in {"reqErr", "tokErr"}) =>
             (\A l \in Limiters : limTokens[l] = limSize[l] - cRet.took[l]))

\* C28 witness: the only call failed in its second Wait on the token
\* limiter (its context was done), after one request token and one token;
\* both stay taken.
C28_Witness ==
    /\ cCalls = 1
    /\ limTicks = 0
    /\ cRet.val = "tokErr"
    /\ cRet.cause = "ctxErr"
    /\ cRet.took["request"] = 1
    /\ cRet.took["token"] = 1
    /\ limTokens["request"] = limSize["request"] - 1
    /\ limTokens["token"] = limSize["token"] - 1
    /\ apiIssued = 0

ClosePcs == {"close_request", "close_token"}

\* C29: once a Close has returned both limiters are stopped for good; a
\* CreateChatCompletion started after that never gets past the stopped
\* check of the Wait on the request limiter, returns the request error
\* wrapping ErrRateLimiterStopped having taken nothing, and issues no
\* gated call; and the steps of a Close started after a Close has returned
\* change nothing of the limiters.
C29_ClosedClientRefuses ==
    /\ [](closeReturned => (\A l \in Limiters : limStopped[l]))
    /\ [](\A p \in Procs :
             (cAfterClose[p] /\ cpc[p] \in CreatePcs) =>
                 (cpc[p] = "req_check"))
    /\ [][/\ \A p \in Procs :
                (cAfterClose[p] /\ cpc[p] \in CreatePcs /\ cpc'[p] # cpc[p]) =>
                    (/\ cpc'[p] = "idle"
                     /\ cRet' = [val |-> "reqErr", cause |-> "stopped",
                                 afterClose |-> TRUE,
                                 took |-> [l \in Limiters |-> 0]]
                     /\ apiIssued' = apiIssued
                     /\ limTokens' = limTokens)
          /\ \A p \in Procs :
                (cAfterClose[p] /\ cpc[p] \in ClosePcs /\ cpc'[p] # cpc[p]) =>
                    (UNCHANGED <<limSize, limTokens, limStopped, limTicks,
                                 apiIssued, closeReturned>>)
         ]_vars

\* C29 witness: a Close returned, then a CreateChatCompletion was called
\* and it returned the error of the stopped request limiter; no gated
\* call was ever issued and the limiters are as full as they were built.
C29_Witness ==
    /\ closeReturned
    /\ cCalls = 2
    /\ cRet = [val |-> "reqErr", cause |-> "stopped", afterClose |-> TRUE,
               took |-> [l \in Limiters |-> 0]]
    /\ apiIssued = 0
    /\ limTokens = limSize
    /\ \A p \in Procs : cpc[p] = "idle"

====
